---- MODULE Spec2Model ----
(***************************************************************************)
(* Model of the ELAsTiCC data access layer:                                *)
(*   LSST_Source          (LSST_Source.py)   one record per table row      *)
(*   LSSTSourceDataSet    (dataloader.py)    row-indexed dataset wrapper   *)
(* The loaded table is a polars DataFrame, the exported event table an     *)
(* astropy Table, the per-observation sequences numpy arrays.  The library *)
(* operations the code calls are modelled by what they do on the values    *)
(* the code hands them.                                                    *)
(***************************************************************************)
EXTENDS Integers, Sequences, FiniteSets

\* ------------------------------------------------------------------ bounds
\* largest number of rows of a loaded table
MaxRows == 3
\* largest number of observations of a light curve
MaxLen == 2
\* observation times are drawn from 1..MaxTime
MaxTime == 2

\* indexed access is tried this far beyond both ends of [-row_count, row_count]
IdxSlack == 1

\* ------------------------------------------------------- class constants
time_series_features == <<"MJD", "BAND", "PHOTFLAG", "FLUXCAL", "FLUXCALERR">>

other_features ==
  <<"RA", "DEC", "MWEBV", "MWEBV_ERR", "REDSHIFT_HELIO", "REDSHIFT_HELIO_ERR",
    "VPEC", "VPEC_ERR", "HOSTGAL_FLAG", "HOSTGAL_PHOTOZ", "HOSTGAL_PHOTOZ_ERR",
    "HOSTGAL_SPECZ", "HOSTGAL_SPECZ_ERR", "HOSTGAL_RA", "HOSTGAL_DEC",
    "HOSTGAL_SNSEP", "HOSTGAL_DDLR", "HOSTGAL_CONFUSION", "HOSTGAL_LOGMASS",
    "HOSTGAL_LOGMASS_ERR", "HOSTGAL_LOGSFR", "HOSTGAL_LOGSFR_ERR",
    "HOSTGAL_LOGsSFR", "HOSTGAL_LOGsSFR_ERR", "HOSTGAL_COLOR",
    "HOSTGAL_COLOR_ERR", "HOSTGAL_ELLIPTICITY", "HOSTGAL_MAG_u",
    "HOSTGAL_MAG_g", "HOSTGAL_MAG_r", "HOSTGAL_MAG_i", "HOSTGAL_MAG_z",
    "HOSTGAL_MAG_Y", "HOSTGAL_MAGERR_u", "HOSTGAL_MAGERR_g",
    "HOSTGAL_MAGERR_r", "HOSTGAL_MAGERR_i", "HOSTGAL_MAGERR_z",
    "HOSTGAL_MAGERR_Y">>

custom_engineered_features ==
  <<"MW_plane_flag", "ELAIS_S1_flag", "XMM-LSS_flag",
    "Extended_Chandra_Deep_Field-South_flag", "COSMOS_flag">>

\* ---------------------------------------------------------------- helpers
Range(s) == {s[i] : i \in 1..Len(s)}

IndexOf(s, x) == CHOOSE i \in 1..Len(s) : s[i] = x

SelectOut(s, x) == SelectSeq(s, LAMBDA e : e # x)

MinOf(s) == CHOOSE m \in Range(s) : \A x \in Range(s) : m <= x

Sorted(s) == \A i \in 1..Len(s) : \A j \in 1..Len(s) : i <= j => s[i] <= s[j]

NoAttrs == [k \in {} |-> 0]

\* setattr(obj, key, value) on the attribute dictionary of an object
SetAttr(attrs, key, value) ==
  [k \in (DOMAIN attrs) \cup {key} |-> IF k = key THEN value ELSE attrs[k]]

\* ------------------------------------------------------- taxonomy mapper
\* taxonomy.get_astrophysical_class: a fixed lookup from fine-grained to
\* coarse class labels
Labels == {"SNIa", "SNII"}

get_astrophysical_class(elasticc_class) ==
  CASE elasticc_class = "SNIa" -> "Ia"
    [] elasticc_class = "SNII" -> "CC"

\* ------------------------------------------------------ polars DataFrame
\* A DataFrame is [columns: sequence of names, rows: sequence of rows], a
\* row being a function from the column names to the cell values.
EmptyFrame == [columns |-> <<>>, rows |-> <<>>]

Height(df) == Len(df.rows)

\* The polars releases differ in what DataFrame.__getitem__(int) does:
\*   "checked"   raises IndexError outside [-height, height), else slice(idx, 1)
\*   "unchecked" is slice(idx, 1), whose offsets are clamped to the frame
PolarsVersions == {"checked", "unchecked"}

\* DataFrame.slice(offset, length): a negative offset counts from the end;
\* a negative offset before the first row is clamped to the first row
DataFrame_slice(df, offset, length) ==
  LET n == Height(df)
      start == IF offset < 0
                 THEN (IF -offset <= n THEN n - (-offset) ELSE 0)
                 ELSE (IF offset <= n THEN offset ELSE n)
      avail == IF offset < 0
                 THEN (IF -offset <= n THEN -offset ELSE n)
                 ELSE (IF offset <= n THEN n - offset ELSE 0)
      cnt   == IF length <= avail THEN length ELSE avail
  IN  [columns |-> df.columns,
       rows    |-> [i \in 1..cnt |-> df.rows[start + i]]]

DataFrame_getitem_neg_unsupported(df, idx, ver) ==
  IF idx >= Height(df) \/ idx < 0
    THEN [err |-> "IndexError", frame |-> EmptyFrame]
    ELSE [err |-> "none", frame |-> DataFrame_slice(df, idx, 1)]

\* self.parquet[idx]
DataFrame_getitem(df, idx, ver) ==
  IF ver = "checked" /\ (idx >= Height(df) \/ idx < -Height(df))
    THEN [err |-> "IndexError", frame |-> EmptyFrame]
    ELSE [err |-> "none", frame |-> DataFrame_slice(df, idx, 1)]

\* ------------------------------------------------------------ LSST_Source
OtherSet == Range(other_features)
TSSet == Range(time_series_features)

\* parquet_row[key]: the column as a sequence of its cells
Column(df, key) == [i \in 1..Height(df) |-> df.rows[i][key]]

Stored_every_column(key) == TRUE

\* whether the loop body of __init__ stores the column: the two branches
\*   if key in self.other_features / elif key in self.time_series_features
Stored(key) == key \in OtherSet \/ key \in TSSet

\* what the loop body stores for a column it stores:
\*   parquet_row[key].to_numpy()[0]   for a static column
\*   parquet_row[key][0].to_numpy()   for a time-series column
StoredValue(parquet_row, key) ==
  IF key \in OtherSet THEN Column(parquet_row, key)[1]
  ELSE Column(parquet_row, key)[1]

\* for key in parquet_row.columns: the attributes after the loop (the column
\* names of a frame are distinct, so each stored column is set once)
InitLoop(attrs, parquet_row) ==
  LET keys == {k \in Range(parquet_row.columns) : Stored(k)}
  IN  [k \in (DOMAIN attrs) \cup keys |->
         IF k \in keys THEN StoredValue(parquet_row, k) ELSE attrs[k]]

\* the time-series attributes a record holds
TSAttrs(attrs) == (DOMAIN attrs) \cap TSSet

\* some two time-series sequences differ in length
LengthMismatch(attrs) ==
  \E a \in TSAttrs(attrs) : \E b \in TSAttrs(attrs) : Len(attrs[a]) # Len(attrs[b])

LSST_Source_init_validating(parquet_row) ==
  IF "ELASTICC_class" \notin Range(parquet_row.columns)
       \/ "SNID" \notin Range(parquet_row.columns)
    THEN [err |-> "ColumnNotFoundError", attrs |-> NoAttrs]
  ELSE IF Height(parquet_row) = 0
    THEN [err |-> "IndexError", attrs |-> NoAttrs]
  ELSE
    LET a1 == SetAttr(NoAttrs, "ELASTICC_class",
                      Column(parquet_row, "ELASTICC_class")[1])
        a2 == SetAttr(a1, "SNID", Column(parquet_row, "SNID")[1])
        a3 == SetAttr(a2, "astrophysical_class",
                      get_astrophysical_class(a2["ELASTICC_class"]))
        a4 == InitLoop(a3, parquet_row)
    IN  IF LengthMismatch(a4)
          THEN [err |-> "ValueError", attrs |-> NoAttrs]
          ELSE [err |-> "none", attrs |-> a4]

\* LSST_Source(parquet_row)
LSST_Source_init(parquet_row) ==
  IF "ELASTICC_class" \notin Range(parquet_row.columns)
       \/ "SNID" \notin Range(parquet_row.columns)
    THEN [err |-> "ColumnNotFoundError", attrs |-> NoAttrs]
  ELSE IF Height(parquet_row) = 0
    \* .to_numpy()[0] on a column of no rows
    THEN [err |-> "IndexError", attrs |-> NoAttrs]
  ELSE
    LET a1 == SetAttr(NoAttrs, "ELASTICC_class",
                      Column(parquet_row, "ELASTICC_class")[1])
        a2 == SetAttr(a1, "SNID", Column(parquet_row, "SNID")[1])
        a3 == SetAttr(a2, "astrophysical_class",
                      get_astrophysical_class(a2["ELASTICC_class"]))
    IN  [err |-> "none", attrs |-> InitLoop(a3, parquet_row)]

\* ------------------------------------------------------- astropy Table
\* A Table is [colnames: the column names in insertion order, cols: name ->
\* column data, meta: the metadata as a sequence of <<key, value>> pairs].
EmptyTable == [colnames |-> <<>>, cols |-> NoAttrs, meta |-> <<>>]

\* len(table)
TableLen(t) == IF Len(t.colnames) = 0 THEN 0 ELSE Len(t.cols[t.colnames[1]])

\* table[name] = col for a new column name (Table.add_column): a column of
\* one element is broadcast to a table that has rows; then a column whose
\* length differs from a table that has columns raises ValueError
Table_setitem(t, name, col) ==
  LET data == IF Len(col) = 1 /\ TableLen(t) > 0
                THEN [i \in 1..TableLen(t) |-> col[1]]
                ELSE col
  IN  IF Len(t.colnames) > 0 /\ Len(data) # TableLen(t)
        THEN [err |-> "ValueError", table |-> t]
        ELSE [err |-> "none",
              table |-> [t EXCEPT !.colnames = Append(t.colnames, name),
                                  !.cols = SetAttr(t.cols, name, data)]]

\* ------------------------------------------- LSST_Source.get_event_table
RebaseTime_from_min(MJD) == [i \in 1..Len(MJD) |-> MJD[i] - MinOf(MJD)]

RebaseTime_reversed(MJD) == [i \in 1..Len(MJD) |-> MJD[1] - MJD[i]]

\* self.MJD - self.MJD[0]
RebaseTime(MJD) == [i \in 1..Len(MJD) |-> MJD[i] - MJD[1]]

\* The state of a call of get_event_table: the error raised so far ("none"
\* while it runs) and the local table.

EvSetTime_empty_allowed(attrs) ==
  IF "MJD" \notin DOMAIN attrs
    THEN [err |-> "AttributeError", table |-> EmptyTable]
  ELSE Table_setitem(EmptyTable, "time", RebaseTime(attrs["MJD"]))

\* table['time'] = self.MJD - self.MJD[0]
EvSetTime(attrs) ==
  IF "MJD" \notin DOMAIN attrs
    THEN [err |-> "AttributeError", table |-> EmptyTable]
  ELSE IF Len(attrs["MJD"]) = 0
    \* self.MJD[0] on an array of no elements
    THEN [err |-> "IndexError", table |-> EmptyTable]
  ELSE Table_setitem(EmptyTable, "time", RebaseTime(attrs["MJD"]))

\* table[name] = self.<attr>
EvAddColumn(st, attrs, name, attr) ==
  IF st.err # "none" THEN st
  ELSE IF attr \notin DOMAIN attrs
    THEN [st EXCEPT !.err = "AttributeError"]
  ELSE Table_setitem(st.table, name, attrs[attr])

\* assert len(table) == len(self.MJD), "Length of time series tensor ..."
EvAssert(st, attrs) ==
  IF st.err # "none" THEN st
  ELSE IF TableLen(st.table) # Len(attrs["MJD"])
    THEN [st EXCEPT !.err = "AssertionError"]
  ELSE st

\* for other_feature in self.other_features:
\*     feature_static[other_feature] = getattr(self, other_feature)
\* (the loop stops at the first name the record has no attribute for)
StaticLoop(attrs) ==
  LET missing == {i \in 1..Len(other_features) : other_features[i] \notin DOMAIN attrs}
      stop    == IF missing = {} THEN Len(other_features) + 1
                 ELSE CHOOSE i \in missing : \A j \in missing : i <= j
  IN  [err  |-> IF missing = {} THEN "none" ELSE "AttributeError",
       meta |-> [i \in 1..(stop - 1) |->
                   <<other_features[i], attrs[other_features[i]]>>]]

\* table.meta = feature_static
EvMeta(st, attrs) ==
  IF st.err # "none" THEN st
  ELSE LET m == StaticLoop(attrs)
       IN  IF m.err # "none" THEN [st EXCEPT !.err = m.err]
           ELSE [st EXCEPT !.table.meta = m.meta]

get_event_table(attrs) ==
  LET s1 == EvSetTime(attrs)
      s2 == EvAddColumn(s1, attrs, "photflag", "PHOTFLAG")
      s3 == EvAddColumn(s2, attrs, "flux", "FLUXCAL")
      s4 == EvAddColumn(s3, attrs, "fluxErr", "FLUXCALERR")
      s5 == EvAddColumn(s4, attrs, "passband", "BAND")
      s6 == EvAssert(s5, attrs)
  IN  EvMeta(s6, attrs)

\* ----------------------------------------------------- LSSTSourceDataSet
\* __getitem__: row = self.parquet[idx]; source = LSST_Source(row)
Dataset_getitem(df, idx, ver) ==
  LET g == DataFrame_getitem(df, idx, ver)
  IN  IF g.err # "none"
        THEN [err |-> g.err, row |-> EmptyFrame, attrs |-> NoAttrs]
        ELSE LET c == LSST_Source_init(g.frame)
             IN  [err |-> c.err, row |-> g.frame, attrs |-> c.attrs]

RECURSIVE LabelsLoop_reversed(_, _, _, _)
LabelsLoop_reversed(ELASTICC_labels, n, idx, astrophysical_labels) ==
  IF idx >= n THEN astrophysical_labels
  ELSE LabelsLoop_reversed(ELASTICC_labels, n, idx + 1,
         <<get_astrophysical_class(ELASTICC_labels[idx + 1])>>
           \o astrophysical_labels)

\* for idx in range(self.num_sample): ... astrophysical_labels.append(...)
RECURSIVE LabelsLoop(_, _, _, _)
LabelsLoop(ELASTICC_labels, n, idx, astrophysical_labels) ==
  IF idx >= n THEN astrophysical_labels
  ELSE LabelsLoop(ELASTICC_labels, n, idx + 1,
         Append(astrophysical_labels,
                get_astrophysical_class(ELASTICC_labels[idx + 1])))

get_labels(df, n) == LabelsLoop(Column(df, "ELASTICC_class"), n, 0, <<>>)

\* ts_np, static_np, class_labels, _ = <an LSST_Source>: the record is not
\* iterable, so the unpacking raises TypeError
Unpack4(attrs) == [err |-> "TypeError"]

get_dimensions(df, ver) ==
  LET g == Dataset_getitem(df, 0, ver)
  IN  IF g.err # "none" THEN [err |-> g.err] ELSE Unpack4(g.attrs)

\* ---------------------------------------------------------- input tables
\* the pass bands of the survey (the keys of LSST_Source.colors)
Bands == <<"u", "g", "r", "i", "z", "Y">>

AllColumns == <<"SNID", "ELASTICC_class">> \o time_series_features \o other_features

\* the column layouts of the tables loaded: every recognized column; an
\* unrecognized column besides; static or time-series columns missing
ColumnLayouts ==
  { AllColumns,
    AllColumns \o <<custom_engineered_features[1]>>,
    <<"SNID", "ELASTICC_class">> \o time_series_features,
    SelectOut(AllColumns, other_features[1]),
    SelectOut(AllColumns, other_features[Len(other_features)]),
    SelectOut(AllColumns, "MJD"),
    SelectOut(AllColumns, "BAND"),
    <<custom_engineered_features[Len(custom_engineered_features)],
      "SNID", "MJD", "ELASTICC_class", "RA">> }

ClassSeqs == UNION {[1..n -> Labels] : n \in 0..MaxRows}

MJDSeqs == UNION {[1..n -> 1..MaxTime] : n \in 0..MaxLen}

\* the time-series column whose length may differ from that of MJD
OddCols == TSSet \ {"MJD"}

\* a light curve: the observation times, and the length of one other column
LightCurves ==
  {[MJD |-> m, odd |-> c, olen |-> l] : m \in MJDSeqs, c \in OddCols, l \in 0..MaxLen}

\* the light curve of the rows after the first
CanonCurve(i) == [MJD |-> <<i, i + 1>>, odd |-> "PHOTFLAG", olen |-> Len(<<i, i + 1>>)]

TSCell(c, lc) ==
  LET l == IF c = lc.odd THEN lc.olen ELSE Len(lc.MJD)
  IN  CASE c = "MJD"        -> lc.MJD
        [] c = "BAND"       -> [i \in 1..l |-> Bands[((i - 1) % Len(Bands)) + 1]]
        [] c = "PHOTFLAG"   -> [i \in 1..l |-> i % 2]
        [] c = "FLUXCAL"    -> [i \in 1..l |-> 10 * i]
        [] c = "FLUXCALERR" -> [i \in 1..l |-> i]

MakeRow(layout, snid, cls, lc) ==
  [c \in Range(layout) |->
     CASE c = "SNID"           -> snid
       [] c = "ELASTICC_class" -> cls
       [] c \in TSSet          -> TSCell(c, lc)
       [] c \in OtherSet       -> 100 * snid + IndexOf(other_features, c)
       [] OTHER                -> 0]

MakeFrame(layout, classes, lc) ==
  [columns |-> layout,
   rows    |-> [i \in 1..Len(classes) |->
                  MakeRow(layout, i, classes[i],
                          IF i = 1 THEN lc ELSE CanonCurve(i))]]

\* ------------------------------------------------------------------ state
VARIABLES
  parquet,     \* LSSTSourceDataSet.parquet: the loaded table
  num_sample,  \* LSSTSourceDataSet.num_sample
  op,          \* the operation called last
  arg,         \* the index given to the last indexed access
  err,         \* the error the last operation raised, or "none"
  ret,         \* what the last operation returned: "none" when it raised
  row,         \* __getitem__'s local row
  source,      \* the record the last indexed access returned
  table,       \* get_event_table's local table
  labels,      \* the list get_labels returned
  count        \* the number __len__ returned

vars == <<parquet, num_sample, op, arg, err, ret, row, source, table,
          labels, count>>

NoSource == [has |-> FALSE, attrs |-> NoAttrs]

\* the tables loaded:
\*   one row of every light curve, under the full column layout;
\*   one row of every light curve of equal lengths, under every layout;
\*   up to MaxRows rows of every class, under every layout
RegularCurves == {lc \in LightCurves : lc.olen = Len(lc.MJD)}

InputTables ==
  {MakeFrame(AllColumns, <<c>>, lc) : c \in Labels, lc \in LightCurves}
    \cup
  {MakeFrame(ColumnLayouts_l, <<c>>, lc) :
     ColumnLayouts_l \in ColumnLayouts, c \in Labels, lc \in RegularCurves}
    \cup
  {MakeFrame(ColumnLayouts_m, classes, CanonCurve(1)) :
     ColumnLayouts_m \in ColumnLayouts, classes \in ClassSeqs}

\* LSSTSourceDataSet.__init__: the state after construction
Init ==
  /\ parquet \in InputTables
  /\ num_sample = Height(parquet)
  /\ op = "init"
  /\ arg = 0
  /\ err = "none"
  /\ ret = "none"
  /\ row = EmptyFrame
  /\ source = NoSource
  /\ table = EmptyTable
  /\ labels = <<>>
  /\ count = 0

\* dataset[idx]
GetItem(idx, ver) ==
  \E g \in {Dataset_getitem(parquet, idx, ver)} :
      /\ op' = "getitem"
      /\ arg' = idx
      /\ err' = g.err
      /\ ret' = IF g.err = "none" THEN "source" ELSE "none"
      /\ row' = g.row
      /\ source' = [has |-> g.err = "none", attrs |-> g.attrs]
      /\ table' = EmptyTable
      /\ labels' = <<>>
      /\ count' = 0
      /\ UNCHANGED <<parquet, num_sample>>

\* source.get_event_table() on the record the last indexed access returned
GetEventTable ==
  /\ source.has
  /\ \E st \in {get_event_table(source.attrs)} :
         /\ op' = "get_event_table"
         /\ err' = st.err
         /\ ret' = IF st.err = "none" THEN "table" ELSE "none"
         /\ table' = st.table
  /\ labels' = <<>>
  /\ count' = 0
  /\ UNCHANGED <<parquet, num_sample, arg, row, source>>

\* dataset.get_labels()
GetLabels ==
  /\ op' = "get_labels"
  /\ err' = "none"
  /\ ret' = "labels"
  /\ labels' = get_labels(parquet, num_sample)
  /\ arg' = 0
  /\ row' = EmptyFrame
  /\ source' = NoSource
  /\ table' = EmptyTable
  /\ count' = 0
  /\ UNCHANGED <<parquet, num_sample>>

\* dataset.get_dimensions()
GetDimensions(ver) ==
  \E d \in {get_dimensions(parquet, ver)} :
      /\ op' = "get_dimensions"
      /\ err' = d.err
      /\ ret' = IF d.err = "none" THEN "dims" ELSE "none"
      /\ arg' = 0
      /\ row' = EmptyFrame
      /\ source' = NoSource
      /\ table' = EmptyTable
      /\ labels' = <<>>
      /\ count' = 0
      /\ UNCHANGED <<parquet, num_sample>>

\* len(dataset)
GetLen ==
  /\ op' = "len"
  /\ err' = "none"
  /\ ret' = "len"
  /\ count' = num_sample
  /\ arg' = 0
  /\ row' = EmptyFrame
  /\ source' = NoSource
  /\ table' = EmptyTable
  /\ labels' = <<>>
  /\ UNCHANGED <<parquet, num_sample>>

\* the indices the callers try: those of the rows, counted from either end,
\* and row_count itself; then the indices further out on both sides
NearIndices == (-num_sample)..num_sample

FarIndices ==
  ((-(num_sample + IdxSlack))..(num_sample + IdxSlack)) \ NearIndices

CallGetItem ==
  \E ver \in PolarsVersions :
    \/ \E idx \in NearIndices : GetItem(idx, ver)
    \/ \E idx \in FarIndices : GetItem(idx, ver)

CallGetDimensions == \E ver \in PolarsVersions : GetDimensions(ver)

Next ==
  \/ CallGetItem
  \/ GetEventTable
  \/ GetLabels
  \/ CallGetDimensions
  \/ GetLen

Spec == Init /\ [][Next]_vars

\* ================================================================ claims
\* the frame of the single row i (1-based) of the loaded table
RowOf(i) == parquet.rows[i]

\* the record held was built from row i of the loaded table
BuiltFromRow(i) ==
  /\ source.has
  /\ row.rows = <<RowOf(i)>>
  /\ \A k \in (DOMAIN source.attrs) \ {"astrophysical_class"} :
       source.attrs[k] = RowOf(i)[k]

HasAllTimeSeries == TSSet \subseteq DOMAIN source.attrs

\* ---------------------------------------------------------------- C1
\* C1: get_labels returns exactly row_count entries, in the order of the
\* table's ELASTICC_class column, entry i being the taxonomy mapper's output
\* for the fine-grained label of row i.
C1_LabelsFollowRows ==
  op = "get_labels" =>
    /\ err = "none"
    /\ ret = "labels"
    /\ Len(labels) = Height(parquet)
    /\ \A i \in 1..Height(parquet) :
         labels[i] = get_astrophysical_class(RowOf(i)["ELASTICC_class"])

\* the scenario of the specification: [SNIa, SNII, SNIa] gives [Ia, CC, Ia]
C1_Witness ==
  /\ op = "get_labels"
  /\ Height(parquet) = 3
  /\ Column(parquet, "ELASTICC_class") = <<"SNIa", "SNII", "SNIa">>
  /\ labels = <<"Ia", "CC", "Ia">>

C3_MismatchRaisesAssertion ==
  op = "get_event_table" =>
    /\ ret = "table" => TableLen(table) = Len(source.attrs["MJD"])
    /\ (HasAllTimeSeries /\ LengthMismatch(source.attrs)) =>
         err = "AssertionError" /\ ret = "none"

C6_GetDimensionsCompletes ==
  (op = "get_dimensions" /\ num_sample >= 1) =>
    err = "none" /\ ret = "dims"

\* ---------------------------------------------------------------- C7
\* C7 as stated: for a record built from a row with any subset of the static
\* columns and all five time-series columns of equal non-zero length,
\* get_event_table returns a table whose metadata holds one key per name of
\* other_features, in that order, mapped to the value the record stores.
C7_MetaHoldsEveryStatic ==
  (/\ op = "get_event_table"
   /\ HasAllTimeSeries
   /\ ~LengthMismatch(source.attrs)
   /\ Len(source.attrs["MJD"]) > 0) =>
    /\ ret = "table"
    /\ Len(table.meta) = Len(other_features)
    /\ \A i \in 1..Len(other_features) :
         table.meta[i] = <<other_features[i], source.attrs[other_features[i]]>>

\* ---------------------------------------------------------------- C8
\* C8: construction from a row stores the scalar of every column named in
\* other_features and the sequence of every column named in
\* time_series_features, and nothing for any other column; the attributes
\* are exactly ELASTICC_class, SNID, astrophysical_class and the recognized
\* columns of the row, astrophysical_class being the taxonomy mapper's
\* output for ELASTICC_class; an unrecognized column raises no error.
C8_ConstructionStoresRecognized ==
  (op = "getitem" /\ Height(row) = 1) =>
    /\ err = "none"
    /\ source.has
    /\ DOMAIN source.attrs =
         {"ELASTICC_class", "SNID", "astrophysical_class"}
           \cup (Range(row.columns) \cap (OtherSet \cup TSSet))
    /\ \A k \in Range(row.columns) \cap (OtherSet \cup TSSet) :
         source.attrs[k] = row.rows[1][k]
    /\ source.attrs["ELASTICC_class"] = row.rows[1]["ELASTICC_class"]
    /\ source.attrs["SNID"] = row.rows[1]["SNID"]
    /\ source.attrs["astrophysical_class"]
         = get_astrophysical_class(row.rows[1]["ELASTICC_class"])

\* a record built from a row that has an unrecognized column, a static
\* column and a time-series column
C8_Witness ==
  /\ op = "getitem"
  /\ err = "none"
  /\ source.has
  /\ \E c \in Range(row.columns) : c \in Range(custom_engineered_features)
  /\ "RA" \in DOMAIN source.attrs
  /\ "MJD" \in DOMAIN source.attrs
  /\ Range(custom_engineered_features) \cap DOMAIN source.attrs = {}

\* ---------------------------------------------------------------- C9
\* the time-series cells of the sliced row differ in length
RowMismatch ==
  \E a \in Range(row.columns) \cap TSSet : \E b \in Range(row.columns) \cap TSSet :
    Len(row.rows[1][a]) # Len(row.rows[1][b])

AllSeriesEmpty ==
  /\ HasAllTimeSeries
  /\ \A k \in TSSet : Len(source.attrs[k]) = 0

\* C10: get_event_table on a record of zero observations returns no table:
\* it fails with an index error at MJD[0], before any column is added and
\* before the length assertion is reached.
C10_EmptyRecordRaisesIndexError ==
  (op = "get_event_table" /\ AllSeriesEmpty) =>
    /\ err = "IndexError"
    /\ ret = "none"
    /\ table.colnames = <<>>
    /\ DOMAIN table.cols = {}

\* get_event_table was called on a record of zero observations
C10_Witness ==
  /\ op = "get_event_table"
  /\ AllSeriesEmpty
  /\ err = "IndexError"

====
